---- MODULE Spec2Model ----
(***************************************************************************)
(* Model of src/pisensor.py: the telemetry loop iothub_client_run, the     *)
(* configuration kept in the configparser object `config` and in the file  *)
(* pisensor.conf, and the callbacks the IoT Hub client library invokes.    *)
(*                                                                         *)
(* Threads.  The main thread runs iothub_client_run.  The client library   *)
(* invokes every registered callback from its own worker thread, one       *)
(* callback at a time, so callbacks never overlap each other but do        *)
(* interleave with the main thread between any two statements of the loop. *)
(* The device twin callback is long (each setter blinks the LEDs for six   *)
(* seconds and scrolls a message), so it is modelled in steps, one per     *)
(* setter call (twin_pc names the source line it has reached); the other   *)
(* callbacks are one step each.  The loop is cut where another thread or   *)
(* Ctrl-C can make a difference: between the two config reads, before the  *)
(* sampling, before the send and during the sleep (run_pc).  When the main *)
(* thread ends, the process ends and no callback runs any more.            *)
(*                                                                         *)
(* Numbers.  Sensor values are integers (degrees).  The corrected          *)
(* temperature t - (t_cpu - t)/1.5 with t = (t1+t2)/2 equals               *)
(* (5*(t1+t2) - 4*t_cpu)/6, so it is carried as a count of sixths, and     *)
(* values rounded to one decimal are counts of tenths.  get_smooth works   *)
(* in floating point (FloatMean); the sensor values of the loop are chosen *)
(* so that every value it meets there is represented exactly, in the model *)
(* as in binary64 (25.0, 50.0, 75.0 degrees).                              *)
(***************************************************************************)
EXTENDS Integers, Sequences, FiniteSets, TLC

\* bounds: telemetry cycles explored, callbacks delivered by the client
\* library, and significant bits kept in a float
MaxMessages == 2
MaxEvents == 2
MantissaBits == 8

\* -------------------------------------------------------- input domains
PARTIAL == "PARTIAL"
COMPLETE == "COMPLETE"
IntervalValues == {-1, 30, 60}
AlertValues == {7, 25}
\* sendinterval and tempalert of pisensor.conf when the program starts
InitialConfig == [sendinterval |-> 60, tempalert |-> 25]
ConnectionString == "HostName=h;DeviceId=d;SharedAccessKey=k"
Protocols == {"HTTP", "AMQP", "AMQP_WS", "MQTT", "MQTT_WS"}
MethodNames == {"display_message", "update_device", "displayMessage", "unknown_cmd"}
HumidityTemps == {30}
PressureTemps == {32}
CpuTemps == {40}

\* ------------------------------------------------- str() and int()
DigitChars == <<"0", "1", "2", "3", "4", "5", "6", "7", "8", "9">>

RECURSIVE DigitsOf(_)
DigitsOf(n) ==
    IF n < 10 THEN <<DigitChars[n + 1]>>
    ELSE DigitsOf(n \div 10) \o <<DigitChars[(n % 10) + 1]>>

\* str(n) for an int n
str(n) == IF n < 0 THEN <<"-">> \o DigitsOf(0 - n) ELSE DigitsOf(n)

DigitValue(c) == CHOOSE d \in 0..9 : DigitChars[d + 1] = c

RECURSIVE NatOf(_)
NatOf(s) ==
    IF Len(s) = 0 THEN 0
    ELSE 10 * NatOf(SubSeq(s, 1, Len(s) - 1)) + DigitValue(s[Len(s)])

\* int(s) for a string s written by str()
int(s) == IF s[1] = "-" THEN 0 - NatOf(Tail(s)) ELSE NatOf(s)

\* ------------------------------------------------------------- state
VARIABLES
    client,                \* client.protocol, fixed by the command line
    config,                \* the configparser object (strings)
    conf_file,             \* content of pisensor.conf
    MESSAGE_COUNT,
    RECEIVE_CALLBACKS,
    SEND_CALLBACKS,
    CONNECTION_STATUS_CALLBACKS,
    TWIN_CALLBACKS,
    SEND_REPORTED_STATE_CALLBACKS,
    METHOD_CALLBACKS,
    run_pc,                \* position of iothub_client_run
    stop_reason,           \* how iothub_client_run ended
    run_locals,            \* send_interval, temp_alert, t_cpu, t1, t2
    cpu_read,              \* outcome of the last get_cpu_temp
    smooth_t,              \* get_smooth.t, <<>> before the first call
    smooth_in,             \* the arguments of the get_smooth calls, in order
    smooth_out,            \* the values the get_smooth calls returned, in order
    sent,                  \* messages handed to send_event_async, in order
    unconfirmed,           \* contexts of messages awaiting confirmation
    reported,              \* reported states handed to send_reported_state
    reports_unacked,       \* reported states awaiting their callback
    twin_pc,               \* position of device_twin_callback
    twin_locals,           \* its payload and local variables
    twin_trace,            \* what the current/last notification did, in order
    twin_result,           \* how the last notification ended
    committed,             \* (interval, alert) pairs Config held between notifications
    method_call            \* last device_method_callback: name, status, command run

counters == <<RECEIVE_CALLBACKS, SEND_CALLBACKS, CONNECTION_STATUS_CALLBACKS,
              TWIN_CALLBACKS, SEND_REPORTED_STATE_CALLBACKS, METHOD_CALLBACKS>>
store == <<config, conf_file>>
smoothv == <<smooth_t, smooth_in, smooth_out>>
loopv == <<MESSAGE_COUNT, run_pc, stop_reason, run_locals, cpu_read, smoothv,
           sent, unconfirmed>>
twinv == <<twin_pc, twin_locals, twin_trace, twin_result, committed>>
vars == <<client, store, counters, loopv, reported, reports_unacked, twinv,
          method_call>>

None == "none"

ConfigOf(interval, alert) ==
    [connectionstring |-> ConnectionString,
     sendinterval |-> str(interval),
     tempalert |-> str(alert)]

NoTwinLocals ==
    [update_state |-> None, payload |-> <<>>,
     desired_send_interval |-> 0, desired_temp_alert |-> 0,
     actual_send_interval |-> 0, actual_temp_alert |-> 0]

NoRunLocals ==
    [send_interval |-> 0, temp_alert |-> 0, t_cpu |-> 0, t1 |-> 0, t2 |-> 0]

Init ==
    /\ client \in Protocols
    /\ config = ConfigOf(InitialConfig.sendinterval, InitialConfig.tempalert)
    /\ conf_file = config
    /\ MESSAGE_COUNT = 0
    /\ RECEIVE_CALLBACKS = 0
    /\ SEND_CALLBACKS = 0
    /\ CONNECTION_STATUS_CALLBACKS = 0
    /\ TWIN_CALLBACKS = 0
    /\ SEND_REPORTED_STATE_CALLBACKS = 0
    /\ METHOD_CALLBACKS = 0
    /\ run_pc = "init"
    /\ stop_reason = None
    /\ run_locals = NoRunLocals
    /\ cpu_read = None
    /\ smooth_t = <<>>
    /\ smooth_in = <<>>
    /\ smooth_out = <<>>
    /\ sent = <<>>
    /\ unconfirmed = {}
    /\ reported = <<>>
    /\ reports_unacked = 0
    /\ twin_pc = "idle"
    /\ twin_locals = NoTwinLocals
    /\ twin_trace = <<>>
    /\ twin_result = None
    /\ committed = {<<InitialConfig.sendinterval, InitialConfig.tempalert>>}
    /\ method_call = [name |-> None, status |-> 0, ran |-> None]

\* ---------------------------------------------------------- helpers
Running == run_pc \notin {"init", "stopped"}
EventsSoFar ==
    RECEIVE_CALLBACKS + SEND_CALLBACKS + CONNECTION_STATUS_CALLBACKS
    + TWIN_CALLBACKS + SEND_REPORTED_STATE_CALLBACKS + METHOD_CALLBACKS
\* the worker thread is free to deliver the next callback
CallbackReady == Running /\ twin_pc = "idle" /\ EventsSoFar < MaxEvents

\* callbacks iothub_client_init registers, by protocol
TwinRegistered == client \in {"MQTT", "MQTT_WS"}
MethodRegistered == client \in {"MQTT", "MQTT_WS"}
ConnectionStatusRegistered == client \in {"AMQP", "AMQP_WS"}

ReportedState(cfg) ==
    [sendInterval |-> int(cfg.sendinterval), tempAlert |-> int(cfg.tempalert)]

\* report_state(): hands the reported state to the client only on MQTT
report_state ==
    IF client = "MQTT"
    THEN /\ reported' = Append(reported, ReportedState(config))
         /\ reports_unacked' = reports_unacked + 1
    ELSE UNCHANGED <<reported, reports_unacked>>

\* open('pisensor.conf', 'w') followed by config.write(configfile).  The open
\* may fail (file not writable) and raise before the file is touched.
PersistOutcomes == {"ok", "open_failed"}
\* a write that leaves the file as it was
FileAfter_StaleFile(outcome, cfg, old) == IF outcome = outcome THEN old ELSE cfg
FileAfter(outcome, cfg, old) == IF outcome = "ok" THEN cfg ELSE old

ConfigPair == <<int(config.sendinterval), int(config.tempalert)>>

\* -------------------------------------------- device_twin_callback
PayloadKeys == {"sendInterval", "tempAlert"}
\* the JSON objects a notification may carry: any subset of the two keys
Payloads ==
    {p \in UNION {[K -> IntervalValues \cup AlertValues] : K \in SUBSET PayloadKeys} :
        /\ "sendInterval" \in DOMAIN p => p["sendInterval"] \in IntervalValues
        /\ "tempAlert" \in DOMAIN p => p["tempAlert"] \in AlertValues}

\* the COMPLETE document delivered on connect carries the whole desired section
CompletePayloads == {p \in Payloads : DOMAIN p = PayloadKeys}

\* a handler that calls the setter whatever the current value is
NeedsUpdate_Always(desired, actual) == desired = desired

\* lines 144 and 146
NeedsUpdate(desired, actual) == desired # actual

\* a handler that treats every notification as a partial update
IsPartial_Any(update_state) == update_state \in {PARTIAL, COMPLETE}

\* line 134: str(update_state) == "PARTIAL"
IsPartial(update_state) == update_state = PARTIAL

\* lines 125-142: count the call, parse the payload, read the actual values
TwinEnter(update_state, payload) ==
    /\ CallbackReady
    /\ TwinRegistered
    /\ TWIN_CALLBACKS' = TWIN_CALLBACKS + 1
    /\ twin_trace' = <<>>
    /\ IF ~IsPartial(update_state)
       THEN /\ twin_result' = "returned"
            /\ twin_locals' = [NoTwinLocals EXCEPT
                   !.update_state = update_state, !.payload = payload]
            /\ UNCHANGED twin_pc
       ELSE IF PayloadKeys \ DOMAIN payload # {}
       THEN \* json_payload['sendInterval'] or ['tempAlert'] raises KeyError
            /\ twin_result' = "KeyError"
            /\ twin_locals' = [NoTwinLocals EXCEPT
                   !.update_state = update_state, !.payload = payload]
            /\ UNCHANGED twin_pc
       ELSE /\ twin_result' = None
            /\ twin_locals' =
                   [update_state |-> update_state,
                    payload |-> payload,
                    desired_send_interval |-> payload["sendInterval"],
                    desired_temp_alert |-> payload["tempAlert"],
                    actual_send_interval |-> int(config.sendinterval),
                    actual_temp_alert |-> int(config.tempalert)]
            /\ twin_pc' = "l144"
    /\ UNCHANGED <<client, store, MESSAGE_COUNT, RECEIVE_CALLBACKS,
                   SEND_CALLBACKS, CONNECTION_STATUS_CALLBACKS,
                   SEND_REPORTED_STATE_CALLBACKS, METHOD_CALLBACKS,
                   run_pc, stop_reason, run_locals, cpu_read, smoothv, sent,
                   unconfirmed, reported, reports_unacked, committed,
                   method_call>>

TwinFrame ==
    UNCHANGED <<client, counters, loopv, method_call>>

\* a setter that stores a value other than the one it was given
SetterConfig_OffByOne(cfg, key, value) == [cfg EXCEPT ![key] = str(value + 1)]

\* lines 261-269 and 276-284: the setter stores str(value) in the config
\* object, then opens and writes the file
SetterConfig(cfg, key, value) == [cfg EXCEPT ![key] = str(value)]

\* lines 144-145 and 261-273: compare and call set_sendinterval
set_sendinterval(outcome) ==
    /\ run_pc # "stopped"
    /\ twin_pc = "l144"
    /\ IF NeedsUpdate(twin_locals.desired_send_interval,
                      twin_locals.actual_send_interval)
       THEN /\ config' = SetterConfig(config, "sendinterval",
                                      twin_locals.desired_send_interval)
            /\ conf_file' = FileAfter(outcome, config', conf_file)
            /\ IF outcome = "ok"
               THEN /\ twin_trace' = twin_trace \o <<"set_sendinterval", "persist">>
                    /\ twin_pc' = "l146"
                    /\ UNCHANGED <<twin_result, committed>>
               ELSE /\ twin_trace' =
                           twin_trace \o <<"set_sendinterval", "persist_failed">>
                    /\ twin_pc' = "idle"
                    /\ twin_result' = "IOError in set_sendinterval"
                    /\ committed' = committed \cup {ConfigPair'}
       ELSE /\ outcome = "ok"
            /\ twin_pc' = "l146"
            /\ UNCHANGED <<store, twin_trace, twin_result, committed>>
    /\ UNCHANGED <<twin_locals, reported, reports_unacked>>
    /\ TwinFrame

\* lines 146-147 and 276-288: compare and call set_tempalert
set_tempalert(outcome) ==
    /\ run_pc # "stopped"
    /\ twin_pc = "l146"
    /\ IF NeedsUpdate(twin_locals.desired_temp_alert,
                      twin_locals.actual_temp_alert)
       THEN /\ config' = SetterConfig(config, "tempalert",
                                      twin_locals.desired_temp_alert)
            /\ conf_file' = FileAfter(outcome, config', conf_file)
            /\ IF outcome = "ok"
               THEN /\ twin_trace' = twin_trace \o <<"set_tempalert", "persist">>
                    /\ twin_pc' = "l149"
                    /\ UNCHANGED <<twin_result, committed>>
               ELSE /\ twin_trace' =
                           twin_trace \o <<"set_tempalert", "persist_failed">>
                    /\ twin_pc' = "idle"
                    /\ twin_result' = "IOError in set_tempalert"
                    /\ committed' = committed \cup {ConfigPair'}
       ELSE /\ outcome = "ok"
            /\ twin_pc' = "l149"
            /\ UNCHANGED <<store, twin_trace, twin_result, committed>>
    /\ UNCHANGED <<twin_locals, reported, reports_unacked>>
    /\ TwinFrame

\* line 149: device_twin_callback restricted to reporting only after a change
\* (not what the source does)
TwinReport_OnlyAfterChange ==
    /\ run_pc # "stopped"
    /\ twin_pc = "l149"
    /\ IF twin_trace # <<>>
       THEN /\ report_state
            /\ twin_trace' = twin_trace \o
                   (IF client = "MQTT"
                    THEN <<"report_state", "send_reported_state">>
                    ELSE <<"report_state">>)
       ELSE UNCHANGED <<reported, reports_unacked, twin_trace>>
    /\ twin_pc' = "idle"
    /\ twin_result' = "returned"
    /\ committed' = committed \cup {ConfigPair}
    /\ UNCHANGED <<store, twin_locals>>
    /\ TwinFrame

\* lines 149 and 237-258: report the state and return
TwinReport ==
    /\ run_pc # "stopped"
    /\ twin_pc = "l149"
    /\ report_state
    /\ twin_trace' = twin_trace \o
           (IF client = "MQTT"
            THEN <<"report_state", "send_reported_state">>
            ELSE <<"report_state">>)
    /\ twin_pc' = "idle"
    /\ twin_result' = "returned"
    /\ committed' = committed \cup {ConfigPair}
    /\ UNCHANGED <<store, twin_locals>>
    /\ TwinFrame

device_twin_callback ==
    \/ \E payload \in Payloads : TwinEnter(PARTIAL, payload)
    \/ \E payload \in CompletePayloads : TwinEnter(COMPLETE, payload)
    \/ \E o \in PersistOutcomes : set_sendinterval(o)
    \/ \E o \in PersistOutcomes : set_tempalert(o)
    \/ TwinReport

\* ------------------------------------------------ the other callbacks
\* lines 89-101
receive_message_callback ==
    /\ CallbackReady
    /\ RECEIVE_CALLBACKS' = RECEIVE_CALLBACKS + 1
    /\ UNCHANGED <<client, store, MESSAGE_COUNT, SEND_CALLBACKS,
                   CONNECTION_STATUS_CALLBACKS, TWIN_CALLBACKS,
                   SEND_REPORTED_STATE_CALLBACKS, METHOD_CALLBACKS, run_pc,
                   stop_reason, run_locals, cpu_read, smoothv, sent,
                   unconfirmed, reported, reports_unacked, twinv, method_call>>

\* lines 104-113: the confirmation of the message sent with this context
send_confirmation_callback(user_context) ==
    /\ CallbackReady
    /\ user_context \in unconfirmed
    /\ unconfirmed' = unconfirmed \ {user_context}
    /\ SEND_CALLBACKS' = SEND_CALLBACKS + 1
    /\ UNCHANGED <<client, store, MESSAGE_COUNT, RECEIVE_CALLBACKS,
                   CONNECTION_STATUS_CALLBACKS, TWIN_CALLBACKS,
                   SEND_REPORTED_STATE_CALLBACKS, METHOD_CALLBACKS, run_pc,
                   stop_reason, run_locals, cpu_read, smoothv, sent,
                   reported, reports_unacked, twinv, method_call>>

\* lines 116-122
connection_status_callback ==
    /\ CallbackReady
    /\ ConnectionStatusRegistered
    /\ CONNECTION_STATUS_CALLBACKS' = CONNECTION_STATUS_CALLBACKS + 1
    /\ UNCHANGED <<client, store, MESSAGE_COUNT, RECEIVE_CALLBACKS,
                   SEND_CALLBACKS, TWIN_CALLBACKS,
                   SEND_REPORTED_STATE_CALLBACKS, METHOD_CALLBACKS, run_pc,
                   stop_reason, run_locals, cpu_read, smoothv, sent,
                   unconfirmed, reported, reports_unacked, twinv, method_call>>

\* lines 152-157
send_reported_state_callback ==
    /\ CallbackReady
    /\ reports_unacked > 0
    /\ reports_unacked' = reports_unacked - 1
    /\ SEND_REPORTED_STATE_CALLBACKS' = SEND_REPORTED_STATE_CALLBACKS + 1
    /\ UNCHANGED <<client, store, MESSAGE_COUNT, RECEIVE_CALLBACKS,
                   SEND_CALLBACKS, CONNECTION_STATUS_CALLBACKS, TWIN_CALLBACKS,
                   METHOD_CALLBACKS, run_pc, stop_reason, run_locals, cpu_read,
                   smoothv, sent, unconfirmed, reported, twinv, method_call>>

\* a dispatcher that forgets to answer 404
MethodStatus_Always200(method_name) == IF method_name = method_name THEN 200 ELSE 404

\* lines 171-179: the status the method callback returns
MethodStatus(method_name) ==
    IF method_name \in {"display_message", "update_device"} THEN 200 ELSE 404

\* lines 173-176: the command the method callback runs
MethodCommand(method_name) ==
    CASE method_name = "display_message" -> "display_message"
      [] method_name = "update_device" -> "update_device"
      [] OTHER -> None

\* lines 160-181
device_method_callback(method_name) ==
    /\ CallbackReady
    /\ MethodRegistered
    /\ METHOD_CALLBACKS' = METHOD_CALLBACKS + 1
    /\ method_call' = [name |-> method_name,
                       status |-> MethodStatus(method_name),
                       ran |-> MethodCommand(method_name)]
    /\ UNCHANGED <<client, store, MESSAGE_COUNT, RECEIVE_CALLBACKS,
                   SEND_CALLBACKS, CONNECTION_STATUS_CALLBACKS, TWIN_CALLBACKS,
                   SEND_REPORTED_STATE_CALLBACKS, run_pc, stop_reason,
                   run_locals, cpu_read, smoothv, sent, unconfirmed,
                   reported, reports_unacked, twinv>>

\* ------------------------------------------------------ the telemetry loop
\* round(x, 1) of x = num/den, as a count of tenths.  With integer sensor
\* values den is 1 or 6 and no x lies halfway between two tenths.
RoundTenths(num, den) == (20 * num + den) \div (2 * den)

\* lines 375-376 with integer inputs, as a count of sixths
CorrectedSixths(t1, t2, t_cpu) == 5 * (t1 + t2) - 4 * t_cpu

\* Python floats.  A float is a whole number of units with at most
\* MantissaBits significant bits (binary64 has 53; the model keeps fewer), and
\* every operation returns the float nearest to the exact result, ties going
\* to the even mantissa.  Values below 2^MantissaBits units are exact.
Abs(n) == IF n < 0 THEN 0 - n ELSE n

RECURSIVE Pow2(_)
Pow2(n) == IF n = 0 THEN 1 ELSE 2 * Pow2(n - 1)

\* the spacing of the floats around num/den
RECURSIVE UlpFrom(_, _, _)
UlpFrom(u, num, den) ==
    IF Abs(num) < Pow2(MantissaBits) * u * den THEN u ELSE UlpFrom(2 * u, num, den)
Ulp(num, den) == UlpFrom(1, num, den)

\* num/den (den > 0) rounded to the nearest integer, ties to even
RoundHalfEven(num, den) ==
    LET q == num \div den
        r == num - q * den
    IN  IF 2 * r < den THEN q
        ELSE IF 2 * r > den THEN q + 1
        ELSE IF q % 2 = 0 THEN q ELSE q + 1

\* the float nearest to num/den
FloatRound(num, den) ==
    Ulp(num, den) * RoundHalfEven(num, den * Ulp(num, den))

FloatAdd(a, b) == FloatRound(a + b, 1)
FloatDiv(a, n) == FloatRound(a, n)

\* a window that overwrites its newest slot and never shifts
SmoothWindow_NoShift(t, x) ==
    IF t = <<>> THEN <<x, x, x>> ELSE <<x, t[2], t[3]>>

\* lines 303-307: get_smooth.t after the call get_smooth(x)
SmoothWindow(t, x) ==
    IF t = <<>> THEN <<x, x, x>> ELSE <<x, t[1], t[2]>>

\* line 308: (t[0] + t[1] + t[2]) / 3 in floating point, left to right
FloatMean(t) == FloatDiv(FloatAdd(FloatAdd(t[1], t[2]), t[3]), 3)

\* lines 302-309: one call get_smooth(x)
get_smooth(x) ==
    /\ smooth_t' = SmoothWindow(smooth_t, x)
    /\ smooth_in' = Append(smooth_in, x)
    /\ smooth_out' = Append(smooth_out, FloatMean(SmoothWindow(smooth_t, x)))

\* a comparison that also raises the alert at the threshold itself
TemperatureAlert_AtLeast(t_corr_tenths, temp_alert) ==
    t_corr_tenths >= 10 * temp_alert

\* line 406
TemperatureAlert(t_corr_tenths, temp_alert) == t_corr_tenths > 10 * temp_alert

\* lines 381-408: the message built from this cycle's values
Message(count, loc, t_corr_tenths) ==
    [message_id |-> <<"message", count>>,
     correlation_id |-> <<"correlation", count>>,
     context |-> count,
     temp_from_humidity |-> RoundTenths(loc.t1, 1),
     temp_from_pressure |-> RoundTenths(loc.t1, 1),
     temp_cpu |-> loc.t_cpu,
     temp_corr |-> t_corr_tenths,
     temperatureAlert |-> TemperatureAlert(t_corr_tenths, loc.temp_alert)]

RunFrame ==
    UNCHANGED <<client, store, counters, twinv, method_call>>

Stop(reason) ==
    /\ run_pc' = "stopped"
    /\ stop_reason' = reason

\* lines 346-348: create the client, register the callbacks, report the state;
\* the client library may raise IoTHubError
RunInit(ok) ==
    /\ run_pc = "init"
    /\ IF ok
       THEN /\ report_state
            /\ run_pc' = "l351"
            /\ UNCHANGED stop_reason
       ELSE /\ Stop("IoTHubError")
            /\ UNCHANGED <<reported, reports_unacked>>
    /\ UNCHANGED <<MESSAGE_COUNT, run_locals, cpu_read, smoothv, sent,
                   unconfirmed>>
    /\ RunFrame

\* line 351
RunReadInterval ==
    /\ run_pc = "l351"
    /\ Len(sent) < MaxMessages
    /\ run_locals' = [run_locals EXCEPT !.send_interval = int(config.sendinterval)]
    /\ run_pc' = "l352"
    /\ UNCHANGED <<MESSAGE_COUNT, stop_reason, cpu_read, smoothv, sent,
                   unconfirmed, reported, reports_unacked>>
    /\ RunFrame

\* line 352
RunReadAlert ==
    /\ run_pc = "l352"
    /\ run_locals' = [run_locals EXCEPT !.temp_alert = int(config.tempalert)]
    /\ run_pc' = "l358"
    /\ UNCHANGED <<MESSAGE_COUNT, stop_reason, cpu_read, smoothv, sent,
                   unconfirmed, reported, reports_unacked>>
    /\ RunFrame

\* lines 291-299 and 358-359.  When open() fails, the handler's tFile.close()
\* raises UnboundLocalError.  When float() fails, the handler closes the file,
\* `exit` is an expression with no effect, the function returns None and
\* "%f" % None raises TypeError in line 359.
CpuOutcomes == {"ok", "open_failed", "parse_failed"}
get_cpu_temp_raises(outcome) ==
    CASE outcome = "ok" -> None
      [] outcome = "open_failed" -> "UnboundLocalError"
      [] outcome = "parse_failed" -> "TypeError"

\* lines 358-371: read the CPU temperature, then the four Sense HAT values;
\* a Sense HAT read may raise (OSError)
RunSample(outcome, value, sense_ok, t1, t2) ==
    /\ run_pc = "l358"
    /\ cpu_read' = outcome
    /\ IF get_cpu_temp_raises(outcome) # None
       THEN /\ Stop(get_cpu_temp_raises(outcome))
            /\ UNCHANGED run_locals
       ELSE IF ~sense_ok
       THEN /\ Stop("OSError")
            /\ run_locals' = [run_locals EXCEPT !.t_cpu = value]
       ELSE /\ run_locals' = [run_locals EXCEPT
                   !.t_cpu = value, !.t1 = t1, !.t2 = t2]
            /\ run_pc' = "l375"
            /\ UNCHANGED stop_reason
    /\ UNCHANGED <<MESSAGE_COUNT, smoothv, sent, unconfirmed, reported,
                   reports_unacked>>
    /\ RunFrame

\* lines 375-411: correct, smooth, round, build the message and hand it to
\* send_event_async; the client library may raise IoTHubError
RunSend(ok) ==
    /\ run_pc = "l375"
    /\ LET x == CorrectedSixths(run_locals.t1, run_locals.t2, run_locals.t_cpu)
           w == SmoothWindow(smooth_t, x)
           t_corr == RoundTenths(FloatMean(w), 6)
       IN  /\ get_smooth(x)
           /\ IF ok
              THEN /\ sent' = Append(sent, Message(MESSAGE_COUNT, run_locals, t_corr))
                   /\ unconfirmed' = unconfirmed \cup {MESSAGE_COUNT}
                   /\ run_pc' = "l412"
                   /\ UNCHANGED stop_reason
              ELSE /\ Stop("IoTHubError")
                   /\ UNCHANGED <<sent, unconfirmed>>
    /\ UNCHANGED <<MESSAGE_COUNT, run_locals, cpu_read, reported, reports_unacked>>
    /\ RunFrame

\* a loop that forgets the increment
NextMessageCount_Stuck(count) == count

\* line 414
NextMessageCount(count) == count + 1

\* a sleep that takes its length from the config at the time it starts
SleepLength_FromConfig == int(config.sendinterval)

\* line 412: the argument of time.sleep, the interval read in line 351
SleepLength == run_locals.send_interval

\* a loop that starts the next cycle only when every message is confirmed
RunSleep_WaitsForConfirmation ==
    /\ run_pc = "l412"
    /\ unconfirmed = {}
    /\ IF SleepLength < 0
       THEN Stop("ValueError") /\ UNCHANGED MESSAGE_COUNT
       ELSE /\ MESSAGE_COUNT' = NextMessageCount(MESSAGE_COUNT)
            /\ run_pc' = "l351"
            /\ UNCHANGED stop_reason
    /\ UNCHANGED <<run_locals, cpu_read, smoothv, sent, unconfirmed,
                   reported, reports_unacked>>
    /\ RunFrame

\* lines 412-414: time.sleep raises ValueError for a negative length; when the
\* sleep is over the counter is incremented and the next cycle starts
RunSleep ==
    /\ run_pc = "l412"
    /\ IF SleepLength < 0
       THEN Stop("ValueError") /\ UNCHANGED MESSAGE_COUNT
       ELSE /\ MESSAGE_COUNT' = NextMessageCount(MESSAGE_COUNT)
            /\ run_pc' = "l351"
            /\ UNCHANGED stop_reason
    /\ UNCHANGED <<run_locals, cpu_read, smoothv, sent, unconfirmed,
                   reported, reports_unacked>>
    /\ RunFrame

\* lines 419-420: Ctrl-C reaches the main thread between any two statements
RunInterrupt ==
    /\ run_pc # "stopped"
    /\ Stop("KeyboardInterrupt")
    /\ UNCHANGED <<MESSAGE_COUNT, run_locals, cpu_read, smoothv, sent,
                   unconfirmed, reported, reports_unacked>>
    /\ RunFrame

iothub_client_run ==
    \/ \E ok \in BOOLEAN : RunInit(ok)
    \/ RunReadInterval
    \/ RunReadAlert
    \/ \E o \in CpuOutcomes, v \in CpuTemps, ok \in BOOLEAN,
          t1 \in HumidityTemps, t2 \in PressureTemps : RunSample(o, v, ok, t1, t2)
    \/ \E ok \in BOOLEAN : RunSend(ok)
    \/ RunSleep
    \/ RunInterrupt

Next ==
    \/ iothub_client_run
    \/ device_twin_callback
    \/ receive_message_callback
    \/ \E c \in 0..MaxMessages : send_confirmation_callback(c)
    \/ connection_status_callback
    \/ send_reported_state_callback
    \/ \E m \in MethodNames : device_method_callback(m)

Spec == Init /\ [][Next]_vars

\* ------------------------- the loop and its confirmations on their own
\* the steps of the loop other than the arrival of Ctrl-C
LoopStep ==
    \/ \E ok \in BOOLEAN : RunInit(ok)
    \/ RunReadInterval
    \/ RunReadAlert
    \/ \E o \in CpuOutcomes, v \in CpuTemps, ok \in BOOLEAN,
          t1 \in HumidityTemps, t2 \in PressureTemps : RunSample(o, v, ok, t1, t2)
    \/ \E ok \in BOOLEAN : RunSend(ok)
    \/ RunSleep

\* on any protocol, the loop and send_confirmation_callback alone
LoopNext ==
    \/ iothub_client_run
    \/ \E c \in 0..MaxMessages : send_confirmation_callback(c)

SpecLoop == Init /\ [][LoopNext]_vars

\* ------------------------------------------- get_smooth on its own
\* get_smooth called on arbitrary input sequences, nothing else running
MaxSmoothCalls == 4
SmoothInputs == {-174, 0, 150, 174, 200}

SmoothInit == Init /\ client = "MQTT"

SmoothCall(x) ==
    /\ Len(smooth_in) < MaxSmoothCalls
    /\ get_smooth(x)
    /\ UNCHANGED <<client, store, counters, MESSAGE_COUNT, run_pc, stop_reason,
                   run_locals, cpu_read, sent, unconfirmed, reported,
                   reports_unacked, twinv, method_call>>

SmoothNext == \E x \in SmoothInputs : SmoothCall(x)

SpecSmooth == SmoothInit /\ [][SmoothNext]_vars

\* ================================================================ claims
Count(seq, ev) == Cardinality({i \in DOMAIN seq : seq[i] = ev})
Flag(b) == IF b THEN 1 ELSE 0

\* the last notification was PARTIAL and carried both keys
TwinPartial == twin_locals.update_state = PARTIAL /\ twin_result # "KeyError"
\* ... and its handler has returned normally
TwinReturned == TwinPartial /\ twin_pc = "idle" /\ twin_result = "returned"
IntervalDiffers ==
    twin_locals.desired_send_interval # twin_locals.actual_send_interval
AlertDiffers ==
    twin_locals.desired_temp_alert # twin_locals.actual_temp_alert
SetterEvents == {"set_sendinterval", "set_tempalert"}

C3_Claim ==
    /\ (/\ twin_pc = "idle"
        /\ twin_locals.update_state = PARTIAL
        /\ DOMAIN twin_locals.payload = {"sendInterval"}
        /\ twin_locals.payload["sendInterval"] > 0)
       => /\ twin_result = "returned"
          /\ int(config.sendinterval) = twin_locals.payload["sendInterval"]
          /\ Count(twin_trace, "report_state") = 1
    /\ (/\ twin_pc = "idle"
        /\ twin_locals.update_state = PARTIAL
        /\ DOMAIN twin_locals.payload = {"tempAlert"})
       => /\ twin_result = "returned"
          /\ int(config.tempalert) = twin_locals.payload["tempAlert"]
          /\ Count(twin_trace, "report_state") = 1

\* C4 as stated: when the file write of a setter fails, the in-memory value
\* of that field is still the value it had before the call.
C4_Claim ==
    /\ twin_result = "IOError in set_sendinterval"
       => int(config.sendinterval) = twin_locals.actual_send_interval
    /\ twin_result = "IOError in set_tempalert"
       => int(config.tempalert) = twin_locals.actual_temp_alert

\* C5 as stated: the configured send interval is always greater than 0 and
\* the loop never sleeps with a non-positive interval.
C5_Claim ==
    /\ int(config.sendinterval) > 0
    /\ run_pc = "l412" => run_locals.send_interval > 0

\* C6 as stated: once the loop has read both values of a cycle, the pair it
\* holds is a pair the config held between notifications, or the pair the
\* notification in progress is installing; never a mixture (stated here for
\* the cycles that read a positive interval).
C6_Claim ==
    run_pc \in {"l358", "l375", "l412"} /\ run_locals.send_interval > 0 =>
        <<run_locals.send_interval, run_locals.temp_alert>> \in
            committed \cup
            (IF twin_pc # "idle"
             THEN {<<twin_locals.desired_send_interval,
                     twin_locals.desired_temp_alert>>}
             ELSE {})

\* C7: the contexts (MESSAGE_COUNT values) of the messages handed to
\* send_event_async are strictly increasing in the order sent, so no id is
\* used twice; message_id and correlation_id carry the same number, and every
\* message still awaiting its confirmation is one of them.
C7_IdsStrictlyIncreasing ==
    /\ \A i, j \in DOMAIN sent : i < j => sent[i].context < sent[j].context
    /\ \A i \in DOMAIN sent :
           /\ sent[i].message_id = <<"message", sent[i].context>>
           /\ sent[i].correlation_id = <<"correlation", sent[i].context>>
           /\ sent[i].context <= MESSAGE_COUNT
    /\ unconfirmed \subseteq {sent[i].context : i \in DOMAIN sent}

\* C7 witness: two messages have been sent and a notification was handled
\* in between or alongside.
C7_Witness ==
    /\ Len(sent) = 2
    /\ sent[1].context # sent[2].context
    /\ TWIN_CALLBACKS >= 1
    /\ SEND_CALLBACKS >= 1

\* C8 as stated: the known commands are displayMessage and updateDevice;
\* they answer 200 and every other name answers 404.
C8_Original ==
    method_call.name # None =>
        method_call.status =
            (IF method_call.name \in {"displayMessage", "updateDevice"}
             THEN 200 ELSE 404)

\* C8 amended: the known commands are display_message and update_device;
\* they answer 200 and run their command; every other name (displayMessage
\* and unknown_cmd included) answers 404 and runs no command.
C8_StatusByName ==
    method_call.name # None =>
        IF method_call.name \in {"display_message", "update_device"}
        THEN method_call.status = 200 /\ method_call.ran = method_call.name
        ELSE method_call.status = 404 /\ method_call.ran = None

\* C8 witness: an unknown name has been answered with 404.
C8_Witness ==
    /\ method_call.name = "unknown_cmd"
    /\ method_call.status = 404
    /\ METHOD_CALLBACKS >= 1

\* C9 as stated: the loop ends only by a transport-fatal error or a user
\* interrupt (here for cycles whose CPU temperature read succeeded).
C9_Claim ==
    run_pc = "stopped" /\ cpu_read \in {None, "ok"} =>
        stop_reason \in {"IoTHubError", "KeyboardInterrupt"}

\* C10 as stated: an unreadable CPU temperature never ends the loop.
C10_Claim ==
    cpu_read \in {"open_failed", "parse_failed"} => run_pc # "stopped"

\* C11 as stated: on every protocol on which notifications are delivered (MQTT
\* and MQTT_WS) a reported state has been handed to the client before the
\* first telemetry message, and a notification that changed the config has
\* been followed by a reported state carrying the new values.
C11_Claim ==
    TwinRegistered =>
        /\ Len(sent) >= 1 => Len(reported) >= 1
        /\ TwinReturned /\ (IntervalDiffers \/ AlertDiffers) =>
               /\ Len(reported) >= 2
               /\ reported[Len(reported)] = ReportedState(config)

\* C12: wherever the loop stands (within the cycles explored), its next step
\* can be taken whatever confirmations are outstanding: with message n handed
\* over and unconfirmed the sleep ends and the next cycle reads its config,
\* samples and sends; and the loop is never stopped by a confirmation, only
\* by an exception or Ctrl-C.
C12_NeverWaitsForConfirmation ==
    /\ run_pc # "stopped" /\ ~(run_pc = "l351" /\ Len(sent) >= MaxMessages)
           => ENABLED LoopStep
    /\ run_pc = "stopped" => stop_reason # None

\* C12 witness: message 1 has been handed over while message 0 was still
\* unconfirmed, and the confirmation of message 1 arrived first.
C12_Witness ==
    /\ Len(sent) = 2
    /\ unconfirmed = {sent[1].context}
    /\ SEND_CALLBACKS = 1
    /\ run_pc = "l351"

\* C13 as stated: the loop ends only when IoTHubError is raised or
\* KeyboardInterrupt is received, never on its own; and once it has ended it
\* stays ended and hands over no further message.
C13_Claim ==
    [][/\ run_pc # "stopped" /\ run_pc' = "stopped"
           => stop_reason' \in {"IoTHubError", "KeyboardInterrupt"}
       /\ run_pc = "stopped" => run_pc' = "stopped" /\ sent' = sent]_vars

\* C14 as stated: a cycle that has read its sensors is not ended by
\* KeyboardInterrupt before its message is handed to send_event_async.
C14_Claim ==
    [][run_pc = "l375" /\ run_pc' = "stopped"
           => stop_reason' # "KeyboardInterrupt"]_vars

\* the k-th argument of get_smooth; before the first call, the first argument
SmoothInputAt(k) == smooth_in[IF k < 1 THEN 1 ELSE k]
\* the three values the k-th call averages, newest first
SmoothSlots(k) == <<SmoothInputAt(k), SmoothInputAt(k - 1), SmoothInputAt(k - 2)>>
SlotsEqual(k) ==
    SmoothInputAt(k - 1) = SmoothInputAt(k) /\ SmoothInputAt(k - 2) = SmoothInputAt(k)

\* C15 as stated: the first output equals the first input, and three equal
\* consecutive inputs v give exactly v.
C15_Original ==
    /\ smooth_out # <<>> => smooth_out[1] = smooth_in[1]
    /\ \A k \in DOMAIN smooth_out : SlotsEqual(k) => smooth_out[k] = smooth_in[k]

\* C15 amended: the window kept between calls holds the three most recent
\* inputs, newest first, the slots not yet filled holding the first input;
\* the k-th output is (t[0] + t[1] + t[2]) / 3 computed in floating point
\* over that window, which is the arithmetic mean up to the rounding of the
\* two additions and the division; when the three slots hold the same value
\* v (the first call included) the output is v or a float next to it.
C15_SmoothIsRoundedWindowMean ==
    /\ Len(smooth_out) = Len(smooth_in)
    /\ smooth_in # <<>> => smooth_t = SmoothSlots(Len(smooth_in))
    /\ \A k \in DOMAIN smooth_out :
           LET a == SmoothInputAt(k)
               b == SmoothInputAt(k - 1)
               c == SmoothInputAt(k - 2)
               scale == Ulp(Abs(a) + Abs(b) + Abs(c), 1)
           IN  /\ smooth_out[k] = FloatMean(SmoothSlots(k))
               /\ 2 * Abs(3 * smooth_out[k] - (a + b + c)) <= 5 * scale
               /\ SlotsEqual(k) => Abs(smooth_out[k] - a) <= Ulp(a, 1)

\* C15 witness: after the inputs 200, 174, 174, 174 the first input has left
\* the window and the fourth output, over three equal inputs, is 173.
C15_Witness ==
    /\ Len(smooth_in) >= 4
    /\ SubSeq(smooth_in, 1, 4) = <<200, 174, 174, 174>>
    /\ smooth_out[1] = 200
    /\ smooth_out[4] = 173

\* set_sendinterval has been called by the notification in progress and has
\* written the file
SendIntervalStored ==
    /\ TwinPartial
    /\ twin_pc = "l146"
    /\ twin_trace = <<"set_sendinterval", "persist">>

SameNotificationAgain ==
    /\ TWIN_CALLBACKS' = TWIN_CALLBACKS + 1
    /\ TWIN_CALLBACKS >= 1
    /\ twin_result = "returned"
    /\ twin_locals'.update_state = twin_locals.update_state
    /\ twin_locals'.payload = twin_locals.payload

LastSent == sent[Len(sent)]

\* C18: while a cycle sleeps after its send, the message it handed over
\* carries the smoothed corrected temperature of the cycle rounded to one
\* decimal, and its temperatureAlert is true exactly when that temperature
\* exceeds the threshold the cycle read in line 352 (equal gives false),
\* whatever the config holds by now.
C18_AlertFromCycleThreshold ==
    run_pc = "l412" =>
        /\ LastSent.temp_corr = RoundTenths(smooth_out[Len(smooth_out)], 6)
        /\ LastSent.temperatureAlert
               <=> LastSent.temp_corr >= 10 * run_locals.temp_alert + 1
        /\ LastSent.temp_corr = 10 * run_locals.temp_alert
               => ~LastSent.temperatureAlert

\* C18 witness: the cycle read the threshold 25, a notification then stored
\* 7, and the message with temperature 25.0 went out with the flag false.
C18_Witness ==
    /\ run_pc = "l412"
    /\ run_locals.temp_alert = 25
    /\ int(config.tempalert) = 7
    /\ LastSent.temp_corr = 250
    /\ ~LastSent.temperatureAlert

\* C19: the interval of a cycle is the value the config holds when line 351
\* runs, so a cycle that starts after set_sendinterval stored a value reads
\* that value; from then to the end of the cycle's sleep no step of any
\* thread changes it; and the sleep acts on that value, ending normally when
\* it is not negative and raising ValueError only when it is negative,
\* whatever the config holds by then.
C19_IntervalFromCycleStart ==
    [][/\ run_pc = "l351" /\ run_pc' = "l352"
              => run_locals'.send_interval = int(config.sendinterval)
       /\ run_pc # "l351"
              => run_locals'.send_interval = run_locals.send_interval
       /\ run_pc = "l412" /\ run_pc' = "l351"
              => run_locals.send_interval >= 0
       /\ run_pc = "l412" /\ stop_reason' = "ValueError"
              => run_locals.send_interval < 0]_vars

\* C19 witness: the cycle read 60, and while it sleeps a notification has
\* stored 30 in the config object and in the file.
C19_Witness ==
    /\ run_pc = "l412"
    /\ run_locals.send_interval = 60
    /\ twin_pc = "idle"
    /\ int(config.sendinterval) = 30
    /\ int(conf_file.sendinterval) = 30

\* C20: a notification whose update state is not PARTIAL adds one to
\* TWIN_CALLBACKS and returns at once: config object and file are unchanged,
\* no setter is called, nothing is written, no reported state is sent, and
\* the loop and the other counters are untouched.
C20_NonPartialChangesNothing ==
    [][(TWIN_CALLBACKS' # TWIN_CALLBACKS /\ twin_locals'.update_state # PARTIAL) =>
           /\ TWIN_CALLBACKS' = TWIN_CALLBACKS + 1
           /\ store' = store
           /\ reported' = reported
           /\ reports_unacked' = reports_unacked
           /\ twin_pc' = "idle"
           /\ twin_trace' = <<>>
           /\ twin_result' = "returned"
           /\ committed' = committed
           /\ UNCHANGED <<client, loopv, method_call, RECEIVE_CALLBACKS,
                          SEND_CALLBACKS, CONNECTION_STATUS_CALLBACKS,
                          SEND_REPORTED_STATE_CALLBACKS, METHOD_CALLBACKS>>]_vars

\* C20 witness: a COMPLETE notification asking for sendInterval 30 and
\* tempAlert 7 has returned; config object and file still hold 60 and 25,
\* and the only reported state is the one sent at startup.
C20_Witness ==
    /\ TWIN_CALLBACKS = 1
    /\ twin_locals.update_state = COMPLETE
    /\ twin_locals.payload["sendInterval"] = 30
    /\ twin_locals.payload["tempAlert"] = 7
    /\ twin_pc = "idle"
    /\ twin_trace = <<>>
    /\ config = ConfigOf(60, 25)
    /\ conf_file = config
    /\ client = "MQTT"
    /\ Len(reported) = 1

====
